---- MODULE Spec2Model ----
(***************************************************************************)
(* Model of rorex (src/rorex/src/main.rs): the two HTTP clients            *)
(* fetch_forex_rate and fetch_historical_rates, the background threads     *)
(* spawned by the two buttons, the mpsc channel they share, and the        *)
(* per-frame App::update handler that drains the channel and renders.      *)
(*                                                                         *)
(* Data representation.  An f64 rate is an integer (hundredths); no        *)
(* arithmetic is done on rates by the program.  A String holding a         *)
(* currency code is a sequence of one-character strings, so that format!   *)
(* and slicing are sequence concatenation and SubSeq.  A NaiveDate is a    *)
(* day number (days since 1970-01-01); its to_string() is the civil triple *)
(* <<year, month, day>>, which is what the ISO text "YYYY-MM-DD" denotes.  *)
(* A JSON body is a record; a JSON object used as a map is a function.     *)
(***************************************************************************)
EXTENDS Integers, Sequences, FiniteSets

VARIABLES
    api_key,            \* App.api_key
    base_currency,      \* App.base_currency
    target_currency,    \* App.target_currency
    rate,               \* App.rate : Option<f64>
    chan,               \* the mpsc channel (fetch_rate_tx / fetch_rate_rx)
    trend,              \* App.trend
    historical_rates,   \* App.historical_rates
    view,               \* what the last frame drew: the rate label and the plots
    threads,            \* the spawned background threads and their locals
    sendOrder,          \* history: ids of the threads, in the order their sends landed
    drainOrder,         \* history: ids of the threads whose message was received
    rateOk,             \* history: some fetch_forex_rate call has returned Ok
    lastRecv,           \* history: the last frame's try_recv: queue length before, result
    fcall, fret,        \* one call of fetch_forex_rate: inputs, result
    hcall, hret         \* one call of fetch_historical_rates: inputs, result

vars == <<api_key, base_currency, target_currency, rate, chan, trend,
          historical_rates, view, threads, sendOrder, drainOrder, rateOk,
          lastRecv, fcall, fret, hcall, hret>>

appVars == <<api_key, base_currency, target_currency, rate, chan, trend,
             historical_rates, view, threads, sendOrder, drainOrder, rateOk,
             lastRecv>>

-----------------------------------------------------------------------------
(* Bounds of the model *)

\* number of threads the buttons may spawn in one run
MaxTasks == 2
\* number of days of the window whose entry the mock responses may vary
NumVary == 5

-----------------------------------------------------------------------------
(* Option<T> and Result<T, E> *)

None == [some |-> FALSE]
Some(v) == [some |-> TRUE, val |-> v]
Ok(v) == [ok |-> TRUE, val |-> v]
Err(e) == [ok |-> FALSE, err |-> e]

\* Result::ok
ResultOk(r) == IF r.ok THEN Some(r.val) ELSE None

\* HashMap::get
MapGet(m, k) == IF k \in DOMAIN m THEN Some(m[k]) ELSE None

-----------------------------------------------------------------------------
(* Inputs: currency codes, API keys, rates *)

USD == <<"U", "S", "D">>
EUR == <<"E", "U", "R">>

\* the codes the two pickers offer (two of the 162 of App::new)
Currencies == {USD, EUR}

\* App::new: the defaults of the three form fields
DefaultApiKey == ""
DefaultBase == USD
DefaultTarget == EUR

ApiKeys == {DefaultApiKey, "k1"}

\* the rates the mock responses carry: 0.92 and 1.10
RateVals == {92, 110}

\* the f64 0.0 the history thread sends
DummyRate == 0

\* format!("{}{}", self.base_currency, self.target_currency)
MakePair(base, target) == base \o target

\* &pair[..3]
PairBase(pair) == SubSeq(pair, 1, 3)

\* a slip: the slice of the base taken for the target
PairTarget_base(pair) == SubSeq(pair, 1, 3)

\* &pair[3..]
PairTarget(pair) == SubSeq(pair, 4, Len(pair))

-----------------------------------------------------------------------------
(* The HTTP layer: what client.get(url).send() and response.json() give *)

TransportError == "error sending request"
DecodeError == "error decoding response body"
PairNotFound == "Currency pair not found"

\* a body that is no JSON, and a JSON body without the expected field
NonJsonBody == [raw |-> "<html>"]
ApiErrorBody == [result |-> "error"]

\* serde: ForexResponse { conversion_rates: HashMap<String, f64> }
DecodeForex(body) ==
    IF "conversion_rates" \in DOMAIN body
    THEN Ok([conversion_rates |-> body.conversion_rates])
    ELSE Err(DecodeError)

\* serde: HistoricalResponse { rates: HashMap<String, HashMap<String, f64>> }
DecodeHistorical(body) ==
    IF "rates" \in DOMAIN body
    THEN Ok([rates |-> body.rates])
    ELSE Err(DecodeError)

\* the URL of fetch_forex_rate
ForexUrl(key, pair) ==
    <<"https://v6.exchangerate-api.com/v6/", key, "/latest/", PairBase(pair)>>

\* fetch_forex_rate, given what the network answers to its one GET
fetch_forex_rate(key, pair, resp) ==
    LET url == ForexUrl(key, pair) IN
    IF ~resp.ok THEN Err(resp.err)
    ELSE LET forex_response == DecodeForex(resp.val) IN
         IF ~forex_response.ok THEN Err(forex_response.err)
         ELSE LET target == PairTarget(pair)
                  found == MapGet(forex_response.val.conversion_rates, target)
              IN  IF found.some THEN Ok(found.val) ELSE Err(PairNotFound)

\* the conversion_rates maps a mock response may carry
RateMaps == UNION {[S -> RateVals] : S \in SUBSET Currencies}

\* what the network may answer to the GET of fetch_forex_rate
ForexResponses ==
    {Err(TransportError), Ok(NonJsonBody), Ok(ApiErrorBody)}
        \cup {Ok([conversion_rates |-> m]) : m \in RateMaps}

-----------------------------------------------------------------------------
(* chrono: NaiveDate as a day number, and its text form *)

\* NaiveDate::from_ymd: the day number of a civil date (days since 1970-01-01)
DaysFromCivil(y, m, d) ==
    LET yy == IF m <= 2 THEN y - 1 ELSE y
        era == yy \div 400
        yoe == yy - era * 400
        mp == IF m > 2 THEN m - 3 ELSE m + 9
        doy == (153 * mp + 2) \div 5 + d - 1
        doe == yoe * 365 + yoe \div 4 - yoe \div 100 + doy
    IN  era * 146097 + doe - 719468

\* the civil date <<year, month, day>> of a day number
CivilFromDays(date) ==
    LET z == date + 719468
        era == z \div 146097
        doe == z - era * 146097
        yoe == (doe - doe \div 1460 + doe \div 36524 - doe \div 146096) \div 365
        doy == doe - (365 * yoe + yoe \div 4 - yoe \div 100)
        mp == (5 * doy + 2) \div 153
        d == doy - (153 * mp + 2) \div 5 + 1
        m == IF mp < 10 THEN mp + 3 ELSE mp - 9
        y == yoe + era * 400 + (IF m <= 2 THEN 1 ELSE 0)
    IN  <<y, m, d>>

\* the values Utc::now().date_naive() takes in the runs: a window that holds
\* a leap day, and one that crosses a year's end
Todays == {DaysFromCivil(2024, 3, 15), DaysFromCivil(2026, 1, 10)}

\* chrono::Duration::days(30): the window is [today - 30, today]
WindowDays == 30

\* the days the runs meet, and their civil dates, tabulated
Days == UNION {(t - WindowDays - 1)..(t + 1) : t \in Todays}
CivilDates == [d \in Days |-> CivilFromDays(d)]

\* date.to_string(): the "YYYY-MM-DD" text of a date, as <<year, month, day>>
DateToString(date) == CivilDates[date]

-----------------------------------------------------------------------------
(* fetch_historical_rates *)

\* the URL of every iteration of fetch_historical_rates
HistUrl(key, base, target, start_date, end_date) ==
    <<"https://v6.exchangerate-api.com/v6/", key, "/history/", base, "/", target,
      "?start_date=", DateToString(start_date), "&end_date=", DateToString(end_date)>>

\* client.get(&url).send()? followed by response.json()?
HistRequest(resp) ==
    IF ~resp.ok THEN Err(resp.err) ELSE DecodeHistorical(resp.val)

\* a slip: the sample is put in front of the samples
HistLookup_front(historical_response, date, target, rates) ==
    LET byDate == MapGet(historical_response.rates, DateToString(date)) IN
    IF byDate.some
    THEN LET r == MapGet(byDate.val, target) IN
         IF r.some THEN <<<<date, r.val>>>> \o rates ELSE rates
    ELSE rates

\* the two nested lookups and the push of one iteration
HistLookup(historical_response, date, target, rates) ==
    LET byDate == MapGet(historical_response.rates, DateToString(date)) IN
    IF byDate.some
    THEN LET r == MapGet(byDate.val, target) IN
         IF r.some THEN Append(rates, <<date, r.val>>) ELSE rates
    ELSE rates

\* a slip: a failed request skips the day instead of returning the error
HistIter_skip(url, date, target, st, resp) ==
    LET urls == Append(st.urls, url)
        historical_response == HistRequest(resp)
    IN  [brk |-> None,
         rates |-> IF historical_response.ok
                   THEN HistLookup(historical_response.val, date, target, st.rates)
                   ELSE st.rates,
         urls |-> urls]

\* one iteration of the for loop: the request is issued, then either the
\* function returns early with the error (brk) or the loop goes on
HistIter(url, date, target, st, resp) ==
    LET urls == Append(st.urls, url)
        historical_response == HistRequest(resp)
    IN  IF ~historical_response.ok
        THEN [brk |-> Some(historical_response.err), rates |-> st.rates, urls |-> urls]
        ELSE [brk |-> None,
              rates |-> HistLookup(historical_response.val, date, target, st.rates),
              urls |-> urls]

RECURSIVE HistLoop(_, _, _, _, _, _, _, _)
HistLoop(key, base, target, start_date, end_date, i, st, script) ==
    IF i > WindowDays
    THEN [ret |-> Ok(st.rates), urls |-> st.urls]
    ELSE LET date == start_date + i
             url == HistUrl(key, base, target, start_date, end_date)
             nxt == HistIter(url, date, target, st, script[i])
         IN  IF nxt.brk.some
             THEN [ret |-> Err(nxt.brk.val), urls |-> nxt.urls]
             ELSE HistLoop(key, base, target, start_date, end_date, i + 1,
                           [rates |-> nxt.rates, urls |-> nxt.urls], script)

\* fetch_historical_rates, given today's date and what the network answers to
\* the GET of each iteration; urls are the requests it issued
fetch_historical_rates(key, pair, today, script) ==
    LET base == PairBase(pair)
        target == PairTarget(pair)
        end_date == today
        start_date == end_date - WindowDays
    IN  HistLoop(key, base, target, start_date, end_date, 0,
                 [rates |-> <<>>, urls |-> <<>>], script)

-----------------------------------------------------------------------------
(* The mock history server *)

\* offsets in the window whose entry a response may vary
VaryOffsets == {(k * 7) % (WindowDays + 1) : k \in 0..(NumVary - 1)}

\* how the response of iteration i treats the date of iteration i
Variants == {"full", "nodate", "nocode"}

\* the rate the server has for a date and a code
MockRate(d, code) ==
    IF (d + (IF code = USD THEN 0 ELSE 1)) % 2 = 0 THEN 92 ELSE 110

\* a body of the server: every date from the day before the window to the
\* day after it, each with every code; but the date of iteration i is missing
\* (nodate) or lacks the requested target (nocode)
MockBodyOf(today, target, how, i) ==
    LET start == today - WindowDays
        mine == start + i
        dates == {d \in (start - 1)..(today + 1) : ~(how = "nodate" /\ d = mine)}
        codes(d) == IF how = "nocode" /\ d = mine THEN Currencies \ {target}
                    ELSE Currencies
    IN  [rates |-> [s \in {DateToString(d) : d \in dates} |->
                      LET d == DaysFromCivil(s[1], s[2], s[3]) IN
                      [c \in codes(d) |-> MockRate(d, c)]]]

\* the bodies of the server, tabulated
MockBodies ==
    [today \in Todays |-> [target \in Currencies |-> [how \in Variants |->
        [i \in 0..WindowDays |-> MockBodyOf(today, target, how, i)]]]]

\* the body served at iteration i: vary says how it treats the date of i
MockBody(today, target, vary, i) ==
    MockBodies[today][target][IF i \in DOMAIN vary THEN vary[i] ELSE "full"][i]

NoFail == [at |-> -1, kind |-> "none"]
FailAts == {0, 14, 30}
FailKinds == {"transport", "nonjson"}
Fails == {NoFail} \cup [at : FailAts, kind : FailKinds]

FailResponse(kind) ==
    IF kind = "transport" THEN Err(TransportError) ELSE Ok(NonJsonBody)

\* the answers to the 31 requests of one call
Script(today, target, vary, fail) ==
    [i \in 0..WindowDays |->
        IF fail.at = i THEN FailResponse(fail.kind)
        ELSE Ok(MockBody(today, target, vary, i))]

-----------------------------------------------------------------------------
(* The background threads *)

Tasks == 1..MaxTasks

Idle == [pc |-> "idle"]
Done == [pc |-> "done"]

NumSpawned(th) == Cardinality({t \in Tasks : th[t].pc # "idle"})

\* thread::spawn of the Fetch Rate button: the closure owns pair and api_key
SpawnRate(th, key, base, target) ==
    [th EXCEPT ![NumSpawned(th) + 1] =
        [pc |-> "fetch", kind |-> "rate", api_key |-> key,
         pair |-> MakePair(base, target)]]

\* thread::spawn of the Fetch Historical Rates button: the closure owns pair,
\* api_key and a clone of App.trend
SpawnHist(th, key, base, target, appTrend) ==
    [th EXCEPT ![NumSpawned(th) + 1] =
        [pc |-> "fetch", kind |-> "hist", api_key |-> key,
         pair |-> MakePair(base, target), trend |-> appTrend]]

\* for (_, rate) in rates { trend.push(rate) }
RECURSIVE PushRates(_, _)
PushRates(localTrend, rates) ==
    IF rates = <<>> THEN localTrend
    ELSE PushRates(Append(localTrend, Head(rates)[2]), Tail(rates))

\* the history thread after its fetch: the rates go to the thread's own trend
HistThreadTrend(localTrend, rates) ==
    IF rates.some THEN PushRates(localTrend, rates.val) ELSE localTrend

\* the message a thread sends when it is done
RateMessage(th) == th.rate
HistMessage(th) == Some(DummyRate)

\* a slip: the message goes to the front of the queue
Send_front(q, t, msg) == <<[msg |-> msg, task |-> t]>> \o q

\* tx.send(msg): the message joins the end of the queue
Send(q, t, msg) == Append(q, [msg |-> msg, task |-> t])

\* the scripts the history thread of the application meets: all 31 answers
\* good, five dates missing, a transport failure on the 15th request
AppVaries ==
    {[i \in {} |-> "full"], [i \in VaryOffsets |-> "nodate"]}
AppFails == {NoFail, [at |-> 14, kind |-> "transport"]}

\* fetch_historical_rates on those scripts, tabulated
AppHistory ==
    [key \in ApiKeys, base \in Currencies, target \in Currencies,
     today \in Todays, vary \in AppVaries, fail \in AppFails |->
        fetch_historical_rates(key, MakePair(base, target), today,
                             Script(today, target, vary, fail))]

\* the rate thread runs fetch_forex_rate(&api_key, &pair).ok()
TaskFetchRate(t) ==
    /\ threads[t].pc = "fetch"
    /\ threads[t].kind = "rate"
    /\ \E resp \in ForexResponses :
         LET res == fetch_forex_rate(threads[t].api_key, threads[t].pair, resp) IN
         /\ threads' = [threads EXCEPT ![t] =
                          [pc |-> "send", kind |-> "rate", rate |-> ResultOk(res)]]
         /\ rateOk' = (rateOk \/ res.ok)
    /\ UNCHANGED <<api_key, base_currency, target_currency, rate, chan, trend,
                   historical_rates, view, sendOrder, drainOrder, lastRecv>>
    /\ UNCHANGED <<fcall, fret, hcall, hret>>

\* a slip: the thread pushes onto the trend of the App, not onto its clone
TaskFetchHist_shared(t) ==
    /\ threads[t].pc = "fetch"
    /\ threads[t].kind = "hist"
    /\ \E today \in Todays, vary \in AppVaries, fail \in AppFails :
         LET th == threads[t]
             res == AppHistory[th.api_key, PairBase(th.pair), PairTarget(th.pair),
                               today, vary, fail]
             rates == ResultOk(res.ret)
         IN  /\ trend' = HistThreadTrend(trend, rates)
             /\ threads' = [threads EXCEPT ![t] =
                              [pc |-> "send", kind |-> "hist", trend |-> th.trend]]
    /\ UNCHANGED <<api_key, base_currency, target_currency, rate, chan,
                   historical_rates, view, sendOrder, drainOrder, rateOk, lastRecv>>
    /\ UNCHANGED <<fcall, fret, hcall, hret>>

\* the history thread runs fetch_historical_rates(&api_key, &pair).ok() and
\* pushes the rates onto its own trend
TaskFetchHist(t) ==
    /\ threads[t].pc = "fetch"
    /\ threads[t].kind = "hist"
    /\ \E today \in Todays, vary \in AppVaries, fail \in AppFails :
         LET th == threads[t]
             res == AppHistory[th.api_key, PairBase(th.pair), PairTarget(th.pair),
                               today, vary, fail]
             rates == ResultOk(res.ret)
         IN  threads' = [threads EXCEPT ![t] =
                           [pc |-> "send", kind |-> "hist",
                            trend |-> HistThreadTrend(th.trend, rates)]]
    /\ UNCHANGED <<api_key, base_currency, target_currency, rate, chan, trend,
                   historical_rates, view, sendOrder, drainOrder, rateOk, lastRecv>>
    /\ UNCHANGED <<fcall, fret, hcall, hret>>

\* a slip: a thread whose fetch failed ends without sending
TaskSend_onlySome(t) ==
    /\ threads[t].pc = "send"
    /\ LET msg == IF threads[t].kind = "rate" THEN RateMessage(threads[t])
                  ELSE HistMessage(threads[t])
       IN  IF msg.some
           THEN chan' = Send(chan, t, msg) /\ sendOrder' = Append(sendOrder, t)
           ELSE UNCHANGED <<chan, sendOrder>>
    /\ threads' = [threads EXCEPT ![t] = Done]
    /\ UNCHANGED <<api_key, base_currency, target_currency, rate, trend,
                   historical_rates, view, drainOrder, rateOk, lastRecv>>
    /\ UNCHANGED <<fcall, fret, hcall, hret>>

\* tx.send(..).ok() and the end of the thread, whose locals are dropped
TaskSend(t) ==
    /\ threads[t].pc = "send"
    /\ chan' = Send(chan, t, IF threads[t].kind = "rate"
                             THEN RateMessage(threads[t])
                             ELSE HistMessage(threads[t]))
    /\ sendOrder' = Append(sendOrder, t)
    /\ threads' = [threads EXCEPT ![t] = Done]
    /\ UNCHANGED <<api_key, base_currency, target_currency, rate, trend,
                   historical_rates, view, drainOrder, rateOk, lastRecv>>
    /\ UNCHANGED <<fcall, fret, hcall, hret>>

-----------------------------------------------------------------------------
(* App::update: one redraw frame *)

\* a slip: the receive empties the queue
try_recv_all(q) ==
    IF q = <<>> THEN [res |-> Err("Empty"), rest |-> q]
    ELSE [res |-> Ok(Head(q)), rest |-> <<>>]

\* self.fetch_rate_rx.try_recv()
try_recv(q) ==
    IF q = <<>> THEN [res |-> Err("Empty"), rest |-> q]
    ELSE [res |-> Ok(Head(q)), rest |-> Tail(q)]

\* a slip: the received option is stored as it is
RecvRate_store(cur, res) == IF res.ok THEN res.val.msg ELSE cur

\* a slip: the received value is dropped
RecvRate_drop(cur, res) == cur

\* the match on the received value
RecvRate(cur, res) ==
    IF res.ok THEN (IF res.val.msg.some THEN Some(res.val.msg.val) ELSE cur)
    ELSE cur

LabelNotFetched == <<"Rate: Not fetched">>

\* the rate label
RenderLabel(r) == IF r.some THEN <<"Rate: ", r.val>> ELSE LabelNotFetched

\* the plots the frame draws
RenderPlots(tr, hr) ==
    (IF tr # <<>> THEN {"trend_plot"} ELSE {})
        \cup (IF hr # <<>> THEN {"historical_plot"} ELSE {})

\* one call of update: the form widgets take the user's input (key, base,
\* target: the values the fields hold after the widgets ran), the buttons
\* spawn their threads, one try_recv, then the label and the plots.  The
\* try_recv is the only place where the call meets the other threads, so the
\* call is one step, taken at its try_recv
update(key, base, target, clickRate, clickHist) ==
    LET th1 == IF clickRate THEN SpawnRate(threads, key, base, target) ELSE threads
        th2 == IF clickHist THEN SpawnHist(th1, key, base, target, trend) ELSE th1
        got == try_recv(chan)
        rate1 == RecvRate(rate, got.res)
    IN  /\ NumSpawned(threads) + (IF clickRate THEN 1 ELSE 0)
              + (IF clickHist THEN 1 ELSE 0) <= MaxTasks
        /\ api_key' = key
        /\ base_currency' = base
        /\ target_currency' = target
        /\ threads' = th2
        /\ chan' = got.rest
        /\ drainOrder' = IF got.res.ok THEN Append(drainOrder, got.res.val.task)
                         ELSE drainOrder
        /\ lastRecv' = [queued |-> Len(chan),
                        res |-> IF got.res.ok THEN Ok(got.res.val.msg) ELSE got.res]
        /\ rate' = rate1
        /\ view' = [label |-> RenderLabel(rate1),
                    plots |-> RenderPlots(trend, historical_rates)]
        /\ UNCHANGED <<trend, historical_rates, sendOrder, rateOk>>
        /\ UNCHANGED <<fcall, fret, hcall, hret>>

-----------------------------------------------------------------------------
(* The application *)

NoCall == [fn |-> "none"]
Pending == [state |-> "pending"]

\* App::new
AppInit ==
    /\ api_key = DefaultApiKey
    /\ base_currency = DefaultBase
    /\ target_currency = DefaultTarget
    /\ rate = None
    /\ chan = <<>>
    /\ trend = <<>>
    /\ historical_rates = <<>>
    /\ view = [label |-> <<>>, plots |-> {}]
    /\ threads = [t \in Tasks |-> Idle]
    /\ sendOrder = <<>>
    /\ drainOrder = <<>>
    /\ rateOk = FALSE
    /\ lastRecv = [queued |-> 0, res |-> Err("Empty")]

Init ==
    /\ AppInit
    /\ fcall = NoCall /\ fret = Pending
    /\ hcall = NoCall /\ hret = Pending

\* what the pointer does in one frame: nothing, a pick in the combo box of
\* the target, or a click on one of the two buttons (the combo box of the
\* base is left at its default in these runs)
PointerActions ==
    {[on |-> "none"], [on |-> "fetch_rate"], [on |-> "fetch_history"]}
        \cup [on : {"target_currency"}, code : Currencies]

\* a frame: the key field holds what the keyboard typed, the pointer acts on
\* at most one widget
Frame ==
    \E key \in ApiKeys, ptr \in PointerActions :
        update(key,
               base_currency,
               IF ptr.on = "target_currency" THEN ptr.code ELSE target_currency,
               ptr.on = "fetch_rate",
               ptr.on = "fetch_history")

Next ==
    \/ Frame
    \/ \E t \in Tasks : TaskFetchRate(t)
    \/ \E t \in Tasks : TaskFetchHist(t)
    \/ \E t \in Tasks : TaskSend(t)

Spec == Init /\ [][Next]_vars

\* a frame in which the form is left alone: the pointer clicks a button or
\* does nothing
ClickFrame ==
    \E clickRate \in BOOLEAN, clickHist \in BOOLEAN :
        /\ ~(clickRate /\ clickHist)
        /\ update(api_key, base_currency, target_currency, clickRate, clickHist)

ClickNext ==
    \/ ClickFrame
    \/ \E t \in Tasks : TaskFetchRate(t)
    \/ \E t \in Tasks : TaskFetchHist(t)
    \/ \E t \in Tasks : TaskSend(t)

\* the runs in which the form keeps its defaults; the redraw loop keeps
\* calling update, and a thread whose fetch has returned goes on to its send
\* (a fetch itself may hang: there is no timeout)
FairSpec ==
    /\ Init /\ [][ClickNext]_vars
    /\ WF_vars(ClickFrame)
    /\ \A t \in Tasks : WF_vars(TaskSend(t))

-----------------------------------------------------------------------------
(* fetch_forex_rate alone: one call on inputs drawn from the bounded sets *)

ForexCalls == [key : ApiKeys, base : Currencies, target : Currencies,
               resp : ForexResponses]

InitForex ==
    /\ AppInit
    /\ fcall \in ForexCalls /\ fret = Pending
    /\ hcall = NoCall /\ hret = Pending

CallFetchForexRate ==
    /\ fret = Pending
    /\ fret' = fetch_forex_rate(fcall.key, MakePair(fcall.base, fcall.target), fcall.resp)
    /\ UNCHANGED <<appVars, fcall, hcall, hret>>

SpecForex == InitForex /\ [][CallFetchForexRate]_vars

(* fetch_historical_rates alone *)

HistCalls == [key : ApiKeys, base : Currencies, target : Currencies,
              today : Todays, vary : [VaryOffsets -> Variants], fail : Fails]

InitHist ==
    /\ AppInit
    /\ fcall = NoCall /\ fret = Pending
    /\ hcall \in HistCalls /\ hret = Pending

CallFetchHistoricalRates ==
    /\ hret = Pending
    /\ hret' = fetch_historical_rates(hcall.key, MakePair(hcall.base, hcall.target),
                                    hcall.today,
                                    Script(hcall.today, hcall.target, hcall.vary, hcall.fail))
    /\ UNCHANGED <<appVars, fcall, fret, hcall>>

SpecHist == InitHist /\ [][CallFetchHistoricalRates]_vars

-----------------------------------------------------------------------------
(* Properties *)

Completed == {t \in Tasks : threads[t].pc = "done"}
InFlight == {t \in Tasks : threads[t].pc \in {"fetch", "send"}}
ChanTasks == [k \in DOMAIN chan |-> chan[k].task]

\* C1: a frame that receives the message "none" leaves App.rate as it was,
\* whether a rate was present or absent before
C1_FailedFetchKeepsRate ==
    [][(Frame /\ chan # <<>> /\ ~Head(chan).msg.some) => rate' = rate]_vars

\* the last frame received "none" and the rate fetched before is still shown
C1_Witness ==
    /\ lastRecv.res = Ok(None)
    /\ rate.some /\ rate.val \in RateVals
    /\ view.label = <<"Rate: ", rate.val>>

\* C2: as long as no fetch_forex_rate call has returned Ok, App.rate is absent
\* and the label drawn, if any, reads "Rate: Not fetched"
C2_NeverFetchedShowsNotFetched ==
    ~rateOk => (rate = None /\ view.label \in {<<>>, LabelNotFetched})

\* C3: once the only thread in flight is a rate thread whose fetch returned
\* Ok(v), with an empty channel, the label eventually shows v
C3_RateEventuallyShown ==
    \A t \in Tasks : \A v \in RateVals :
        (/\ threads[t] = [pc |-> "send", kind |-> "rate", rate |-> Some(v)]
         /\ InFlight = {t}
         /\ chan = <<>>)
            ~> (rate = Some(v) /\ view.label = <<"Rate: ", v>>)

\* the one message of the one rate thread was received and its rate is shown
C3_Witness ==
    /\ Len(sendOrder) = 1 /\ drainOrder = sendOrder
    /\ lastRecv.res.ok /\ lastRecv.res.val.some
    /\ lastRecv.res.val.val \in RateVals
    /\ rate = lastRecv.res.val
    /\ view.label = <<"Rate: ", rate.val>>

\* C4: a frame takes the head of the queue and nothing else: of n queued
\* messages n - 1 remain, and of none, none; no step takes more than one
C4_OneMessagePerFrame ==
    [][/\ Len(chan') >= Len(chan) - 1
       /\ Frame => /\ chan' = (IF chan = <<>> THEN <<>> ELSE Tail(chan))
                   /\ Len(chan') = (IF Len(chan) = 0 THEN 0 ELSE Len(chan) - 1)
                   /\ Len(drainOrder') <= Len(drainOrder) + 1]_vars

\* the last frame found two messages queued and left one of them
C4_Witness ==
    /\ lastRecv.queued = 2
    /\ Len(chan) = 1
    /\ Len(sendOrder) = 2 /\ Len(drainOrder) = 1

\* C5: fetch_forex_rate returns the value of the target in conversion_rates,
\* "Currency pair not found" when the map has no such key, and the transport
\* or decode error otherwise
C5_ForexRateIsLookup ==
    fret # Pending =>
        LET resp == fcall.resp IN
        IF ~resp.ok THEN fret = Err(resp.err)
        ELSE IF "conversion_rates" \notin DOMAIN resp.val THEN fret = Err(DecodeError)
        ELSE IF fcall.target \in DOMAIN resp.val.conversion_rates
             THEN fret = Ok(resp.val.conversion_rates[fcall.target])
             ELSE fret = Err(PairNotFound)

\* a call returned the rate of the target where the base has another rate
C5_Witness ==
    /\ fret # Pending /\ fret.ok
    /\ fcall.base # fcall.target
    /\ fcall.base \in DOMAIN fcall.resp.val.conversion_rates
    /\ fcall.resp.val.conversion_rates[fcall.base] # fret.val

\* the dates of the window for which the response of their own iteration has
\* the date and, under it, the target; and the rate given there
HistPresent(c) ==
    {i \in 0..WindowDays :
        LET body == Script(c.today, c.target, c.vary, c.fail)[i].val
            key == CivilFromDays(c.today - WindowDays + i)
        IN  key \in DOMAIN body.rates /\ c.target \in DOMAIN body.rates[key]}
HistExpected(c) ==
    {<<c.today - WindowDays + i,
       Script(c.today, c.target, c.vary, c.fail)[i].val
           .rates[CivilFromDays(c.today - WindowDays + i)][c.target]>> :
        i \in HistPresent(c)}

\* C6: when no request fails, fetch_historical_rates returns one sample for
\* each date of the window present in its response, with that rate, in
\* strictly ascending date order, and nothing else
C6_HistoryIsPresentDates ==
    (hret # Pending /\ hcall.fail = NoFail) =>
        /\ hret.ret.ok
        /\ {hret.ret.val[k] : k \in DOMAIN hret.ret.val} = HistExpected(hcall)
        /\ \A k \in 1..(Len(hret.ret.val) - 1) :
              hret.ret.val[k][1] < hret.ret.val[k + 1][1]
        /\ Len(hret.ret.val) = Cardinality(HistPresent(hcall))
        /\ Len(hret.urls) = WindowDays + 1

\* five dates are missing, some as dates and some for the target, and the
\* call returned 26 samples
C6_Witness ==
    /\ hret # Pending /\ hcall.fail = NoFail
    /\ Cardinality({i \in VaryOffsets : hcall.vary[i] # "full"}) = 5
    /\ \E i, j \in VaryOffsets : hcall.vary[i] = "nodate" /\ hcall.vary[j] = "nocode"
    /\ Len(hret.ret.val) = 26

\* C7: when the request of one iteration fails, fetch_historical_rates
\* returns that error and no sample, and issues no request after it
C7_HistoryAllOrNothing ==
    (hret # Pending /\ hcall.fail # NoFail) =>
        /\ ~hret.ret.ok
        /\ "val" \notin DOMAIN hret.ret
        /\ hret.ret.err = (IF hcall.fail.kind = "transport" THEN TransportError
                           ELSE DecodeError)
        /\ Len(hret.urls) = hcall.fail.at + 1

\* the 15th request failed, after 14 days that were all present
C7_Witness ==
    /\ hret # Pending
    /\ hcall.fail = [at |-> 14, kind |-> "transport"]
    /\ \A i \in VaryOffsets : hcall.vary[i] = "full"
    /\ hret.ret = Err(TransportError)
    /\ Len(hret.urls) = 15

\* C8: every completed thread has sent exactly one message: the messages
\* sent are those of the completed threads, one each, and the queue holds
\* the ones not yet received
C8_OneMessagePerTask ==
    /\ Len(sendOrder) = Cardinality(Completed)
    /\ \A t \in Tasks :
          Cardinality({k \in DOMAIN sendOrder : sendOrder[k] = t})
              = (IF t \in Completed THEN 1 ELSE 0)
    /\ Len(chan) = Cardinality(Completed) - Len(drainOrder)

\* two threads completed, one of them with a failed fetch whose "none" was
\* received, the message of the other still queued
C8_Witness ==
    /\ Cardinality(Completed) = 2
    /\ Len(sendOrder) = 2
    /\ lastRecv.res = Ok(None)
    /\ Len(chan) = 1 /\ chan[1].msg = Some(DummyRate)

\* C9: messages are received in the order their sends landed: the threads
\* received from, followed by those of the queued messages, are the threads
\* in the order they sent
C9_DrainedInSendOrder ==
    sendOrder = drainOrder \o ChanTasks

\* the thread clicked second sent first, and its message was received first
C9_Witness ==
    /\ sendOrder = <<2, 1>>
    /\ drainOrder = <<2>>
    /\ ChanTasks = <<1>>

\* the thread clicked first sent first, and its message was received first
C9_WitnessClickOrder ==
    /\ sendOrder = <<1, 2>>
    /\ drainOrder = <<1>>
    /\ ChanTasks = <<2>>

\* C10: App.trend and App.historical_rates are empty in every state, and no
\* frame draws a plot
C10_TrendNeverUpdated ==
    /\ trend = <<>>
    /\ historical_rates = <<>>
    /\ view.plots = {}

\* a history thread holds the 31 rates it fetched in its own trend while the
\* trend of the App is empty
C10_Witness ==
    /\ \E t \in Tasks :
          /\ threads[t].pc = "send" /\ threads[t].kind = "hist"
          /\ Len(threads[t].trend) = WindowDays + 1
    /\ trend = <<>>
    /\ view.label # <<>>

====
